---- MODULE Spec2Model ----
(***************************************************************************)
(* Client-side authentication plumbing of the valund frontend:             *)
(*   - the 401 -> refresh/ response interceptor (api/auth.ts shares one    *)
(*     promise, part_003 keeps a queue of waiters),                        *)
(*   - the per-email login RateLimiter,                                    *)
(*   - withCsrfRetry / authApi.logout,                                     *)
(*   - the BankID polling loops of the useBankIDAuth mutations,            *)
(*   - the useLogout mutations of the hooks modules.                       *)
(* One macrotask of the JavaScript event loop (a response arriving, a      *)
(* timer firing, a call being made) together with the microtasks it        *)
(* schedules is one action.                                                *)
(***************************************************************************)
EXTENDS Integers, Sequences, FiniteSets, TLC

VARIABLES
  file,            \* the source file whose implementation is running
  ACCESS_TOKEN,    \* let ACCESS_TOKEN: string | null
  isRefreshing,    \* let isRefreshing = false
  refreshPromise,  \* let refreshPromise: Promise<string> | null (0 = null, else the id of the promise)
  waiters,         \* let waiters: ((access: string) => void)[] (the request each closure re-sends)
  req,             \* the requests made through authClient
  refresh,         \* the refresh procedures started by the interceptor
  now,             \* Date.now()
  ticks,           \* how often the clock has advanced
  attempts,        \* RateLimiter.attempts: Map<string, { count, resetTime }>
  pending,         \* the authApi.login calls that passed the limiter and have not settled
  lastCall,        \* what the most recent authApi.login call did
  win,             \* per email: the limiter window in force, the calls passed in it
  lastRej,         \* the most recent rejected call: its email, the time since it (capped once
                   \* longer than the window), same: its email's record is unchanged since
  op,              \* the authApi operation being called
  pc,              \* where that call is: "idle", "fn" (request in flight), "seed" (csrf/ in flight), "done"
  attempt,         \* withCsrfRetry: attempt
  fnCalls,         \* how often withCsrfRetry has invoked fn
  seedState,       \* the csrf/ request of seedCsrf / primeCsrf: "none", "inflight", "settled"
  firstError,      \* the error of the first invocation of fn
  lastError,       \* withCsrfRetry: lastError
  wrap,            \* how withCsrfRetry settled
  callResult,      \* how the authApi operation settled
  bpc,             \* the BankID mutation: "idle", "start", "wait", "status", "invalidate", "cancel", "done"
  tries,           \* let tries = 0 / let attempts = 0
  orderRef,        \* start.order_ref
  polls,           \* the bankidStatus requests sent
  pollRef,         \* the order_ref of the last bankidStatus request
  waits,           \* the 2-second waits completed
  elapsed,         \* milliseconds waited
  lastResp,        \* the answer to the last bankidStatus request
  cancels,         \* the bankidCancel requests sent
  invalidated,     \* invalidateQueries(['auth','me']) was called by the mutation function
  bResult,         \* how the mutation function settled
  hook,            \* the hooks module whose useLogout the component calls
  cache,           \* the query cache: the data under ['auth','me'] and ['auth','user']
  persisted,       \* localStorage has an entry under 'valunds-user-profile'
  clientToken,     \* let ACCESS_TOKEN of api/client.ts
  mu,              \* the useLogout mutation: "idle", "pending", "success", "error"
  toast,           \* the last toast shown
  guard,           \* the route guard component that is mounted on its route
  isLoading,       \* useAuthStatus().isLoading
  isAuthenticated, \* useAuthStatus().isAuthenticated
  location,        \* the router's current path
  view,            \* what the guard rendered last: "none", "spinner", "children"
  stale,           \* the guard has not rendered since it was mounted or the auth status changed
  redirected,      \* the last redirect a guard issued: where to and by which means
  isVisible,       \* CookieConsent: const [isVisible, setIsVisible] = useState(false)
  showDetails,     \* const [showDetails, setShowDetails] = useState(false)
  preferences,     \* const [preferences, setPreferences] = useState<CookiePreferences>(...)
  consent,         \* localStorage: the values (none or one) under 'valunds-cookie-consent'
  timer,           \* the setTimeout of the mount effect is pending
  event,           \* the handler of CookieConsent that ran last
  calls            \* the calls of authApi.bankidStart of part_002

refreshVars == <<isRefreshing, refreshPromise, waiters, req, refresh>>
limVars == <<now, ticks, attempts, pending, lastCall, win, lastRej>>
apiVars == <<op, pc, attempt, fnCalls, seedState, firstError, lastError, wrap, callResult>>
bankVars == <<bpc, tries, orderRef, polls, pollRef, waits, elapsed, lastResp, cancels, invalidated, bResult>>
hookVars == <<hook, cache, persisted, clientToken, mu, toast>>
guardVars == <<guard, isLoading, isAuthenticated, location, view, stale, redirected>>
cookieVars == <<isVisible, showDetails, preferences, consent, timer, event>>
geoVars == <<calls>>
uiVars == <<hookVars, guardVars, cookieVars, geoVars>>
vars == <<file, ACCESS_TOKEN, refreshVars, limVars, apiVars, bankVars, uiVars>>

----------------------------------------------------------------------------
(* Bounds *)
NumCalls == 2
NumReq == 3
MaxRefresh == 2
MaxTicks == 2
MaxInFlight == 2

Req == 1..NumReq
RefreshId == 1..MaxRefresh

NoToken == <<"null">>
(* the access tokens the server issues: one per login (0, 1) or refresh/ response *)
Token(n) == <<"token", n>>
NoHeader == <<>>

Bearer(tok) == <<"Bearer", tok>>

Max(S) == CHOOSE x \in S : \A y \in S : y <= x

----------------------------------------------------------------------------
(* Request interceptor: attach the access token when there is one. *)
RequestInterceptor(token, header) ==
  IF token # NoToken THEN Bearer(token) ELSE header

(* The condition under which the response interceptor handles an error. *)
ShouldRefresh(f, status, retry, url) ==
  IF f = "auth.ts"
    THEN status = 401 /\ ~retry /\ ~(url = "refresh/")
    ELSE ~(status # 401 \/ retry \/ url = "refresh/")

IdleReq ==
  [st |-> "idle", url |-> "me/", retry |-> FALSE, auth |-> NoHeader, sends |-> 0,
   result |-> "none", waitsOn |-> 0, lastStatus |-> 0, storedAtResend |-> NoToken]

NoRefresh ==
  [stage |-> "none", leader |-> 0, token |-> NoToken, status |-> 0, csrfRetry |-> FALSE]

Active(i) == refresh[i].stage \in {"csrf", "csrfWait", "post"}
ActiveRefreshes == {i \in RefreshId : Active(i)}
Started == {i \in RefreshId : refresh[i].stage # "none"}
NextId == Cardinality(Started) + 1

RefreshIdle ==
  /\ isRefreshing = FALSE
  /\ refreshPromise = 0
  /\ waiters = <<>>
  /\ req = [r \in Req |-> IdleReq]
  /\ refresh = [i \in RefreshId |-> NoRefresh]

(* authClient(config): the request interceptor runs, the request leaves. *)
SendOf(q, token) ==
  [q EXCEPT !.st = "inflight", !.sends = @ + 1,
            !.auth = RequestInterceptor(token, q.auth)]

Send(r) ==
  /\ req[r].st = "idle"
  /\ req' = [req EXCEPT ![r] = SendOf(req[r], ACCESS_TOKEN)]
  /\ UNCHANGED <<file, ACCESS_TOKEN, isRefreshing, refreshPromise, waiters, refresh>>
  /\ UNCHANGED <<limVars, apiVars, bankVars, uiVars>>

(* A response that the interceptor passes through: 2xx, or an error it rethrows. *)
ResultOf(status) ==
  IF status = 200 THEN "ok" ELSE IF status = 401 THEN "err401" ELSE "errOther"

Settle(q, status) ==
  [q EXCEPT !.st = "done", !.lastStatus = status, !.result = ResultOf(status)]

(* original.headers.Authorization = `Bearer ${tok}`; authClient(original) *)
ResendStale(q, tok, stored) ==
  [q EXCEPT !.st = "inflight", !.sends = @ + 1, !.storedAtResend = stored]

Resend(q, tok, stored) ==
  [q EXCEPT !.st = "inflight", !.sends = @ + 1,
            !.auth = RequestInterceptor(stored, Bearer(tok)),
            !.storedAtResend = stored]

(* if (!isRefreshing) { isRefreshing = true; ... }: r starts a refresh. *)
StartRefresh(r) ==
  /\ NextId \in RefreshId
  /\ isRefreshing' = TRUE
  /\ IF file = "auth.ts"
       THEN /\ refreshPromise' = NextId
            /\ refresh' = [refresh EXCEPT ![NextId] =
                 [NoRefresh EXCEPT !.stage = "post", !.leader = r]]
            /\ req' = [req EXCEPT ![r] =
                 [@ EXCEPT !.st = "awaiting", !.retry = TRUE, !.lastStatus = 401,
                           !.waitsOn = NextId]]
       ELSE /\ refreshPromise' = refreshPromise
            /\ refresh' = [refresh EXCEPT ![NextId] =
                 [NoRefresh EXCEPT !.stage = "csrf", !.leader = r]]
            /\ req' = [req EXCEPT ![r] =
                 [@ EXCEPT !.st = "leading", !.retry = TRUE, !.lastStatus = 401,
                           !.waitsOn = NextId]]
  /\ UNCHANGED <<file, ACCESS_TOKEN, waiters>>

(* A refresh is in flight: await refreshPromise (auth.ts), waiters.push (part_003). *)
JoinRefresh(r) ==
  /\ IF file = "auth.ts"
       THEN /\ req' = [req EXCEPT ![r] =
                 [@ EXCEPT !.st = "awaiting", !.retry = TRUE, !.lastStatus = 401,
                           !.waitsOn = refreshPromise]]
            /\ waiters' = waiters
       ELSE /\ req' = [req EXCEPT ![r] =
                 [@ EXCEPT !.st = "queued", !.retry = TRUE, !.lastStatus = 401,
                           !.waitsOn = Max(ActiveRefreshes \cup {0})]]
            /\ waiters' = Append(waiters, r)
  /\ UNCHANGED <<file, ACCESS_TOKEN, isRefreshing, refreshPromise, refresh>>

(* The interceptor's 401 branch for the request r. *)
StartOrJoinNoFlag(r) == StartRefresh(r)

StartOrJoin(r) ==
  IF ~isRefreshing THEN StartRefresh(r) ELSE JoinRefresh(r)

(* The response to a request of the application arrives. *)
OnResponse(r, status) ==
  /\ req[r].st = "inflight"
  /\ IF ShouldRefresh(file, status, req[r].retry, req[r].url)
       THEN StartOrJoin(r)
       ELSE /\ req' = [req EXCEPT ![r] = Settle(@, status)]
            /\ UNCHANGED <<file, ACCESS_TOKEN, isRefreshing, refreshPromise, waiters, refresh>>
  /\ UNCHANGED <<limVars, apiVars, bankVars, uiVars>>

(* The response to csrf/ of primeCsrf arrives (part_003); it passes through   *)
(* the same interceptor. isRefreshing is TRUE here: the leader set it before *)
(* priming, so a 401 pushes the csrf/ request onto waiters.                  *)
OnCsrfResponse(i, status) ==
  /\ file = "part_003"
  /\ refresh[i].stage = "csrf"
  /\ IF ShouldRefresh(file, status, refresh[i].csrfRetry, "csrf/") /\ isRefreshing
       THEN /\ waiters' = Append(waiters, 0 - i)
            /\ refresh' = [refresh EXCEPT ![i] =
                 [@ EXCEPT !.stage = "csrfWait", !.csrfRetry = TRUE]]
       ELSE /\ waiters' = waiters
            /\ refresh' = [refresh EXCEPT ![i] = [@ EXCEPT !.stage = "post"]]
  /\ UNCHANGED <<file, ACCESS_TOKEN, isRefreshing, refreshPromise, req>>
  /\ UNCHANGED <<limVars, apiVars, bankVars, uiVars>>

InWaiters(x) == \E k \in 1..Len(waiters) : waiters[k] = x

(* refresh/ answered 2xx with data.access = tok. *)
RefreshSucceeded(i, tok) ==
  /\ ACCESS_TOKEN' = tok
  /\ isRefreshing' = FALSE
  /\ file' = file
  /\ IF file = "auth.ts"
       THEN /\ refreshPromise' = 0
            /\ waiters' = waiters
            /\ refresh' = [refresh EXCEPT ![i] =
                 [@ EXCEPT !.stage = "ok", !.token = tok, !.status = 200]]
            /\ req' = [r \in Req |->
                 IF req[r].st = "awaiting" /\ req[r].waitsOn = i
                   THEN Resend(req[r], tok, ACCESS_TOKEN') ELSE req[r]]
       ELSE /\ refreshPromise' = refreshPromise
            /\ waiters' = <<>>
            /\ refresh' = [j \in RefreshId |->
                 IF j = i THEN [refresh[j] EXCEPT !.stage = "ok", !.token = tok, !.status = 200]
                 ELSE IF InWaiters(0 - j) THEN [refresh[j] EXCEPT !.stage = "csrf"]
                 ELSE refresh[j]]
            /\ req' = [r \in Req |->
                 IF InWaiters(r) THEN Resend(req[r], tok, ACCESS_TOKEN')
                 ELSE IF r = refresh[i].leader /\ req[r].st = "leading"
                   THEN Resend(req[r], ACCESS_TOKEN', ACCESS_TOKEN')
                 ELSE req[r]]

(* refresh/ failed: catch { setAccessToken(null) ... } *)
RefreshFailedKeepToken(i, status) ==
  /\ ACCESS_TOKEN' = ACCESS_TOKEN
  /\ isRefreshing' = FALSE
  /\ file' = file
  /\ refresh' = [refresh EXCEPT ![i] = [@ EXCEPT !.stage = "failed", !.status = status]]
  /\ IF file = "auth.ts"
       THEN /\ refreshPromise' = 0
            /\ waiters' = waiters
            /\ req' = [r \in Req |->
                 IF req[r].st = "awaiting" /\ req[r].waitsOn = i
                   THEN [req[r] EXCEPT !.st = "done", !.result = "err401"] ELSE req[r]]
       ELSE /\ refreshPromise' = refreshPromise
            /\ waiters' = <<>>
            /\ req' = [r \in Req |->
                 IF r = refresh[i].leader /\ req[r].st = "leading"
                   THEN [req[r] EXCEPT !.st = "done", !.result = "err401"] ELSE req[r]]

RefreshFailed(i, status) ==
  /\ ACCESS_TOKEN' = NoToken
  /\ isRefreshing' = FALSE
  /\ file' = file
  /\ refresh' = [refresh EXCEPT ![i] = [@ EXCEPT !.stage = "failed", !.status = status]]
  /\ IF file = "auth.ts"
       THEN /\ refreshPromise' = 0
            /\ waiters' = waiters
            /\ req' = [r \in Req |->
                 IF req[r].st = "awaiting" /\ req[r].waitsOn = i
                   THEN [req[r] EXCEPT !.st = "done", !.result = "err401"] ELSE req[r]]
       ELSE /\ refreshPromise' = refreshPromise
            /\ waiters' = <<>>
            /\ req' = [r \in Req |->
                 IF r = refresh[i].leader /\ req[r].st = "leading"
                   THEN [req[r] EXCEPT !.st = "done", !.result = "err401"] ELSE req[r]]

(* The response to POST refresh/ arrives; it passes through the interceptor first. *)
OnRefreshResponse(i, status) ==
  /\ refresh[i].stage = "post"
  /\ IF ShouldRefresh(file, status, FALSE, "refresh/")
       THEN /\ refresh' = [refresh EXCEPT ![i] = [@ EXCEPT !.stage = "stuck", !.status = status]]
            /\ UNCHANGED <<file, ACCESS_TOKEN, isRefreshing, refreshPromise, waiters, req>>
       ELSE IF status = 200 THEN RefreshSucceeded(i, Token(i + 1)) ELSE RefreshFailed(i, status)
  /\ UNCHANGED <<limVars, apiVars, bankVars, uiVars>>

Statuses == {200, 401, 500}

RefreshNext ==
  \/ \E r \in Req : Send(r)
  \/ \E r \in Req, status \in Statuses : OnResponse(r, status)
  \/ \E i \in RefreshId, status \in Statuses : OnCsrfResponse(i, status)
  \/ \E i \in RefreshId, status \in Statuses : OnRefreshResponse(i, status)


----------------------------------------------------------------------------
(* RateLimiter and authApi.login *)

WindowMs == 900000
MaxLoginAttempts == 5
TooMany == "Too many login attempts. Try again in 15 minutes."

Emails == {"a@x.se", "b@x.se"}
Key(e) == <<"login_", e>>
Keys == {Key(e) : e \in Emails}

(* this.attempts.get(key) === undefined *)
NoRecord == [count |-> 0, resetTime |-> 0 - 1]

NoCall == [email |-> "", allowed |-> TRUE, msg |-> ""]
NoWindow == [start |-> 0 - 1, passes |-> 0, success |-> FALSE]
NoReject == [email |-> "", age |-> 0, same |-> FALSE]

LimIdle ==
  /\ now = 0
  /\ ticks = 0
  /\ attempts = [k \in Keys |-> NoRecord]
  /\ pending = [e \in Emails |-> 0]
  /\ lastCall = NoCall
  /\ win = [e \in Emails |-> NoWindow]
  /\ lastRej = NoReject

(* !record || now > record.resetTime *)
Expired(rec, t) == rec = NoRecord \/ t > rec.resetTime

(* the value isAllowed returns *)
IsAllowedOffByOne(rec, maxAttempts, t) ==
  Expired(rec, t) \/ ~(rec.count > maxAttempts)

IsAllowed(rec, maxAttempts, t) ==
  Expired(rec, t) \/ ~(rec.count >= maxAttempts)

(* the record isAllowed leaves under the key *)
RecordAfterSliding(rec, maxAttempts, windowMs, t) ==
  IF Expired(rec, t) THEN [count |-> 1, resetTime |-> t + windowMs]
  ELSE IF rec.count >= maxAttempts THEN rec
  ELSE [count |-> rec.count + 1, resetTime |-> t + windowMs]

RecordAfter(rec, maxAttempts, windowMs, t) ==
  IF Expired(rec, t) THEN [count |-> 1, resetTime |-> t + windowMs]
  ELSE IF rec.count >= maxAttempts THEN rec
  ELSE [rec EXCEPT !.count = @ + 1]

(* The window of the claims: it starts at the first call that passes when   *)
(* no window is in force for the email and lasts WindowMs; a successful     *)
(* login of api/auth.ts (rateLimiter.clear) ends it.                        *)
InForce(w, t) == w.start >= 0 /\ t <= w.start + WindowMs

WindowAfterPass(w, t) ==
  IF InForce(w, t) THEN [w EXCEPT !.passes = @ + 1]
  ELSE [start |-> t, passes |-> 1, success |-> FALSE]

(* a login succeeded: the window contains a success; rateLimiter.clear of   *)
(* api/auth.ts ends it                                                      *)
WindowAfterSuccess(f, w, t) ==
  IF f = "auth.ts" THEN NoWindow
  ELSE [w EXCEPT !.success = @ \/ InForce(w, t)]

InFlightLogins == pending["a@x.se"] + pending["b@x.se"]

(* authApi.login({ email: e, ... }) is called: the limiter, then (if it     *)
(* lets the call pass) primeCsrf / withCsrfRetry(POST login/) are started.  *)
Login(e) ==
  LET rec == attempts[Key(e)]
      ok == IsAllowed(rec, MaxLoginAttempts, now)
      after == RecordAfter(rec, MaxLoginAttempts, WindowMs, now)
  IN /\ ok => InFlightLogins < MaxInFlight
     /\ attempts' = [attempts EXCEPT ![Key(e)] = after]
     /\ pending' = IF ok THEN [pending EXCEPT ![e] = @ + 1] ELSE pending
     /\ lastCall' = [email |-> e, allowed |-> ok, msg |-> (IF ok THEN "" ELSE TooMany)]
     /\ win' = IF ok THEN [win EXCEPT ![e] = WindowAfterPass(@, now)] ELSE win
     /\ lastRej' = IF ~ok THEN [email |-> e, age |-> 0, same |-> TRUE]
                   ELSE IF lastRej.email = e /\ after # rec THEN [lastRej EXCEPT !.same = FALSE]
                   ELSE lastRej
     /\ UNCHANGED <<file, ACCESS_TOKEN, now, ticks>>
     /\ UNCHANGED <<refreshVars, apiVars, bankVars, uiVars>>

LoginOutcomes == {"ok", "401", "fail"}

(* rateLimiter.clear(key) after a successful login (api/auth.ts only) *)
AttemptsAfterSuccess(f, e) ==
  IF f = "auth.ts" THEN [attempts EXCEPT ![Key(e)] = NoRecord] ELSE attempts

(* withCsrfRetry(POST login/) of a call for e settles: fulfilled ("ok"),    *)
(* rejected through handleError with a 401, or rejected otherwise.          *)
LoginSettled(e, outcome) ==
  /\ pending[e] > 0
  /\ pending' = [pending EXCEPT ![e] = @ - 1]
  /\ IF outcome = "ok"
       THEN /\ ACCESS_TOKEN' = Token(1)
            /\ attempts' = AttemptsAfterSuccess(file, e)
            /\ win' = [win EXCEPT ![e] = WindowAfterSuccess(file, @, now)]
            /\ lastRej' = IF lastRej.email = e /\ attempts' # attempts
                            THEN [lastRej EXCEPT !.same = FALSE] ELSE lastRej
       ELSE /\ attempts' = attempts
            /\ win' = win
            /\ lastRej' = lastRej
            /\ ACCESS_TOKEN' = IF outcome = "401" THEN NoToken ELSE ACCESS_TOKEN
  /\ lastCall' = NoCall
  /\ UNCHANGED <<file, now, ticks>>
  /\ UNCHANGED <<refreshVars, apiVars, bankVars, uiVars>>

(* time passes *)
Tick(d) ==
  /\ ticks < MaxTicks
  /\ ticks' = ticks + 1
  /\ now' = now + d
  /\ lastCall' = NoCall
  /\ lastRej' = IF lastRej = NoReject THEN lastRej
                ELSE [lastRej EXCEPT !.age = IF @ + d > WindowMs THEN WindowMs + 1 ELSE @ + d]
  /\ UNCHANGED <<file, ACCESS_TOKEN, attempts, pending, win>>
  /\ UNCHANGED <<refreshVars, apiVars, bankVars, uiVars>>

LimNext ==
  \/ \E e \in Emails : Login(e)
  \/ \E e \in Emails, outcome \in LoginOutcomes : LoginSettled(e, outcome)
  \/ \E d \in {1, WindowMs} : Tick(d)

----------------------------------------------------------------------------
(* withCsrfRetry, handleError, authApi.register / authApi.logout *)

MaxRetries == 1

(* strings that the code inspects are sequences of characters *)
Csrf == <<"c", "s", "r", "f">>
Forbidden == <<"f", "o", "r", "b", "i", "d", "d", "e", "n">>
DetailNone == <<>>
DetailCsrfFailed == <<"C", "S", "R", "F", " ", "F", "a", "i", "l", "e", "d">>
DetailNoCsrf == <<"n", "o", " ", "c", "s", "r", "f">>
DetailForbidden == <<"F", "o", "r", "b", "i", "d", "d", "e", "n">>
Details == {DetailNone, DetailCsrfFailed, DetailNoCsrf, DetailForbidden}
StatusTexts == {<<>>, <<"F", "o", "r", "b", "i", "d", "d", "e", "n">>}

ToLowerChar(c) ==
  CASE c = "C" -> "c" [] c = "S" -> "s" [] c = "R" -> "r" [] c = "F" -> "f" [] OTHER -> c

(* String.prototype.toLowerCase *)
ToLowerCase(str) == [k \in 1..Len(str) |-> ToLowerChar(str[k])]

(* String.prototype.includes *)
Includes(str, sub) ==
  \E k \in 1..(Len(str) - Len(sub) + 1) : SubSeq(str, k, k + Len(sub) - 1) = sub

NoError == [kind |-> "none", status |-> 0, detail |-> <<>>, statusText |-> <<>>]

(* kind "axios" with status 0: an AxiosError without response; "plain": any other Error *)
Errors ==
  {[kind |-> "axios", status |-> 403, detail |-> d, statusText |-> t] : d \in Details, t \in StatusTexts}
  \cup {[kind |-> "axios", status |-> 401, detail |-> <<>>, statusText |-> <<>>],
        [kind |-> "axios", status |-> 500, detail |-> <<>>, statusText |-> <<>>],
        [kind |-> "axios", status |-> 500, detail |-> DetailCsrfFailed, statusText |-> <<>>],
        [kind |-> "axios", status |-> 0, detail |-> <<>>, statusText |-> <<>>],
        [kind |-> "plain", status |-> 0, detail |-> <<>>, statusText |-> <<>>]}

IsCsrf403AnyStatus(f, e) ==
  e.kind = "axios" /\ Includes(ToLowerCase(e.detail), Csrf)

IsCsrf403(f, e) ==
  IF f = "auth.ts"
    THEN e.kind = "axios" /\ e.status = 403 /\ Includes(ToLowerCase(e.detail), Csrf)
    ELSE /\ e.kind = "axios"
         /\ e.status = 403
         /\ \/ (e.detail # <<>> /\ Includes(ToLowerCase(e.detail), Csrf))
            \/ Includes(ToLowerCase(e.statusText), Forbidden)

(* the message of the Error that handleError throws *)
HandleErrorMessage(f, e) ==
  IF e.kind = "axios"
    THEN IF e.status = 401 THEN "Authentication failed. Please sign in again."
         ELSE IF e.status = 403
           THEN IF \/ Includes(ToLowerCase(e.detail), Csrf)
                   \/ (f = "part_003" /\ Includes(ToLowerCase(e.detail), Forbidden))
                  THEN "Security token expired. Please try again."
                  ELSE "Access forbidden. Please check your permissions."
         ELSE IF e.detail # <<>> THEN "response.data.detail" ELSE "error.message"
    ELSE "error.message"

(* handleError: setAccessToken(null) on a 401 *)
HandleErrorToken(e, tok) ==
  IF e.kind = "axios" /\ e.status = 401 THEN NoToken ELSE tok

NotSettled == [result |-> "pending", handled |-> FALSE, handledError |-> NoError, reported |-> ""]

ApiIdle ==
  /\ op = "none"
  /\ pc = "idle"
  /\ attempt = 0
  /\ fnCalls = 0
  /\ seedState = "none"
  /\ firstError = NoError
  /\ lastError = NoError
  /\ wrap = NotSettled
  /\ callResult = "pending"

(* The operation is called: fn is invoked for the first time. *)
ApiCall ==
  /\ pc = "idle"
  /\ pc' = "fn"
  /\ fnCalls' = 1
  /\ UNCHANGED <<file, ACCESS_TOKEN, op, attempt, seedState, firstError, lastError, wrap, callResult>>
  /\ UNCHANGED <<refreshVars, limVars, bankVars, uiVars>>

(* authApi.logout: catch { } finally { setAccessToken(null) } *)
LogoutTokenKept(tok) == tok

LogoutToken(tok) == NoToken

(* part_002 has try/finally only: a failure of logout/ is rethrown *)
LogoutResult(f, wrapResult) ==
  IF f = "part_002" THEN wrapResult ELSE "resolved"

(* withCsrfRetry (or the bare request of part_002) settles; the operation settles with it. *)
Finish(wres, handled, e, msg, tok) ==
  /\ pc' = "done"
  /\ wrap' = [result |-> wres, handled |-> handled, handledError |-> e, reported |-> msg]
  /\ callResult' = IF op = "logout" THEN LogoutResult(file, wres) ELSE wres
  /\ ACCESS_TOKEN' = IF op = "logout" THEN LogoutToken(tok) ELSE tok

(* what the response interceptor did to the token before fn settled:       *)
(* refresh succeeded and the request was re-sent, or refresh failed        *)
TokenAfterInterceptor(eff, tok) ==
  IF eff = "refreshed" THEN Token(2) ELSE IF eff = "cleared" THEN NoToken ELSE tok

(* await seedCsrf() / await primeCsrf() inside the catch block *)
StartSeed(e, tok) ==
  /\ pc' = "seed"
  /\ seedState' = "inflight"
  /\ ACCESS_TOKEN' = tok
  /\ UNCHANGED <<wrap, callResult>>

(* the catch block of withCsrfRetry for the error e of the current invocation *)
OnFnError(e, tok) ==
  IF file = "part_002"
    THEN /\ Finish("rejected", FALSE, NoError, "raw", tok)
         /\ seedState' = seedState
  ELSE IF file = "auth.ts"
    THEN IF IsCsrf403(file, e) /\ attempt < MaxRetries
           THEN StartSeed(e, tok)
           ELSE /\ Finish("rejected", TRUE, e, HandleErrorMessage(file, e), HandleErrorToken(e, tok))
                /\ seedState' = seedState
  ELSE IF attempt > 0
    THEN /\ Finish("rejected", FALSE, NoError, "raw", tok)
         /\ seedState' = seedState
  ELSE IF IsCsrf403(file, e)
    THEN StartSeed(e, tok)
    ELSE /\ Finish("rejected", TRUE, e, HandleErrorMessage(file, e), HandleErrorToken(e, tok))
         /\ seedState' = seedState

(* The promise returned by fn settles: fulfilled (e = NoError) or rejected with e. *)
FnSettle(e, eff) ==
  LET tok == TokenAfterInterceptor(eff, ACCESS_TOKEN)
  IN /\ pc = "fn"
     /\ eff = "cleared" => (e.kind = "axios" /\ e.status = 401)
     /\ eff = "refreshed" => file # "part_002"
     /\ firstError' = IF fnCalls = 1 THEN e ELSE firstError
     /\ lastError' = IF e = NoError THEN lastError ELSE e
     /\ IF e = NoError
          THEN /\ Finish("resolved", FALSE, NoError, "",
                         IF op = "register" THEN Token(1) ELSE tok)
               /\ seedState' = seedState
          ELSE OnFnError(e, tok)
     /\ UNCHANGED <<file, op, attempt, fnCalls>>
     /\ UNCHANGED <<refreshVars, limVars, bankVars, uiVars>>

(* seedCsrf() / primeCsrf() settles (its own failure is swallowed); fn is invoked again. *)
ApiSeedSettle ==
  /\ pc = "seed"
  /\ pc' = "fn"
  /\ seedState' = "settled"
  /\ attempt' = attempt + 1
  /\ fnCalls' = fnCalls + 1
  /\ UNCHANGED <<file, ACCESS_TOKEN, op, firstError, lastError, wrap, callResult>>
  /\ UNCHANGED <<refreshVars, limVars, bankVars, uiVars>>

ApiNext ==
  \/ ApiCall
  \/ \E e \in Errors \cup {NoError}, eff \in {"none", "refreshed", "cleared"} : FnSettle(e, eff)
  \/ ApiSeedSettle

----------------------------------------------------------------------------
(* useBankIDAuth: the mutation function *)

MaxPolls == 60
PollInterval == 2000

PlainLoops == {"UseAuth.ts", "part_012"}
TryLoops == {"part_005a", "part_005b"}

OrderRefs == {"ref1", "ref2"}
NoUser == "undefined"

(* what the server answers to bankid/status: data of a 2xx, or a rejection *)
StatusAnswers ==
  {[kind |-> "data", status |-> st, user |-> NoUser, tokens |-> FALSE] :
       st \in {"pending", "failed", "cancelled", "complete"}}
  \cup {[kind |-> "data", status |-> "complete", user |-> "u1", tokens |-> tk] : tk \in BOOLEAN}
  \cup {[kind |-> "networkError", status |-> "", user |-> NoUser, tokens |-> FALSE],
        [kind |-> "apiError", status |-> "", user |-> NoUser, tokens |-> FALSE]}
NoAnswer == [kind |-> "none", status |-> "", user |-> NoUser, tokens |-> FALSE]

BankIdle ==
  /\ bpc = "idle"
  /\ tries = 0
  /\ orderRef = ""
  /\ polls = 0
  /\ pollRef = ""
  /\ waits = 0
  /\ elapsed = 0
  /\ lastResp = NoAnswer
  /\ cancels = 0
  /\ invalidated = FALSE
  /\ bResult = "pending"

(* mutate(): authApi.bankidStart() is called. *)
BankStart ==
  /\ bpc = "idle"
  /\ bpc' = "start"
  /\ UNCHANGED <<file, ACCESS_TOKEN, tries, orderRef, polls, pollRef, waits, elapsed, lastResp,
                 cancels, invalidated, bResult>>
  /\ UNCHANGED <<refreshVars, limVars, apiVars, uiVars>>

(* the loop condition: tries++ < 60 / attempts < maxAttempts *)
LoopContinuesOneMore(n) == n <= MaxPolls

LoopContinues(n) == n < MaxPolls

(* The loop condition is evaluated; the body up to its first await runs, or *)
(* the code after the loop up to its first await.                           *)
NextIteration ==
  IF LoopContinues(tries)
    THEN /\ tries' = tries + 1
         /\ bpc' = "wait"
         /\ UNCHANGED <<cancels, bResult>>
    ELSE IF file \in PlainLoops
      THEN /\ tries' = tries + 1
           /\ bpc' = "done"
           /\ bResult' = "BankID timeout"
           /\ cancels' = cancels
      ELSE /\ tries' = tries
           /\ bpc' = "cancel"
           /\ cancels' = cancels + 1
           /\ bResult' = bResult

(* bankidStart settles. *)
StartSettle(ok, ref) ==
  /\ bpc = "start"
  /\ IF ok
       THEN /\ orderRef' = ref
            /\ NextIteration
       ELSE /\ orderRef' = orderRef
            /\ bpc' = "done"
            /\ bResult' = "bankidStart error"
            /\ UNCHANGED <<tries, cancels>>
  /\ UNCHANGED <<file, ACCESS_TOKEN, polls, pollRef, waits, elapsed, lastResp, invalidated>>
  /\ UNCHANGED <<refreshVars, limVars, apiVars, uiVars>>

(* setTimeout(resolve, 2000) fires: bankidStatus(order_ref) is sent. *)
WaitDone ==
  /\ bpc = "wait"
  /\ waits' = waits + 1
  /\ elapsed' = elapsed + PollInterval
  /\ polls' = polls + 1
  /\ pollRef' = orderRef
  /\ bpc' = "status"
  /\ UNCHANGED <<file, ACCESS_TOKEN, tries, orderRef, lastResp, cancels, invalidated, bResult>>
  /\ UNCHANGED <<refreshVars, limVars, apiVars, uiVars>>

(* the loop body is inside try { } catch *)
InTryBlockAlways(f) == TRUE

InTryBlock(f) == f \in TryLoops

(* the Error the loop body throws for the data a, "" if it throws none *)
ThrownFor(f, a) ==
  IF a.status = "failed"
    THEN IF f \in PlainLoops THEN "BankID failed" ELSE "BankID authentication failed"
  ELSE IF a.status = "cancelled" /\ f = "part_005b"
    THEN "BankID authentication was cancelled"
  ELSE ""

(* catch (error): if (!authError.response) continue; throw error *)
CatchContinues(hasResponse) == ~hasResponse

(* an error thrown in the loop body: hasResponse tells whether it has a .response *)
Throw(msg, hasResponse) ==
  IF InTryBlock(file) /\ CatchContinues(hasResponse)
    THEN NextIteration
    ELSE /\ bpc' = "done"
         /\ bResult' = msg
         /\ UNCHANGED <<tries, cancels>>

(* bankidStatus settles with the answer a. *)
StatusSettle(a) ==
  /\ bpc = "status"
  /\ lastResp' = a
  /\ ACCESS_TOKEN' = IF a.tokens THEN Token(1) ELSE ACCESS_TOKEN
  /\ IF a.kind = "networkError" THEN Throw("Network Error", FALSE)
     ELSE IF a.kind = "apiError" THEN Throw("Request failed", TRUE)
     ELSE IF a.status = "complete" /\ a.user # NoUser
       THEN /\ bpc' = IF file \in PlainLoops THEN "invalidate" ELSE "done"
            /\ bResult' = IF file \in PlainLoops THEN bResult ELSE a.user
            /\ UNCHANGED <<tries, cancels>>
     ELSE IF ThrownFor(file, a) # "" THEN Throw(ThrownFor(file, a), FALSE)
     ELSE NextIteration
  /\ invalidated' = (invalidated \/ (bpc' = "invalidate"))
  /\ UNCHANGED <<file, orderRef, polls, pollRef, waits, elapsed>>
  /\ UNCHANGED <<refreshVars, limVars, apiVars, uiVars>>

(* await queryClient.invalidateQueries(...) settles: return result.user *)
InvalidateSettle ==
  /\ bpc = "invalidate"
  /\ bpc' = "done"
  /\ bResult' = lastResp.user
  /\ UNCHANGED <<file, ACCESS_TOKEN, tries, orderRef, polls, pollRef, waits, elapsed, lastResp,
                 cancels, invalidated>>
  /\ UNCHANGED <<refreshVars, limVars, apiVars, uiVars>>

(* bankidCancel settles (its failure is ignored): the timeout error is thrown. *)
CancelSettle ==
  /\ bpc = "cancel"
  /\ bpc' = "done"
  /\ bResult' = "BankID authentication timed out"
  /\ UNCHANGED <<file, ACCESS_TOKEN, tries, orderRef, polls, pollRef, waits, elapsed, lastResp,
                 cancels, invalidated>>
  /\ UNCHANGED <<refreshVars, limVars, apiVars, uiVars>>

BankNext ==
  \/ BankStart
  \/ \E ok \in BOOLEAN, ref \in OrderRefs : StartSettle(ok, ref)
  \/ WaitDone
  \/ \E a \in StatusAnswers : StatusSettle(a)
  \/ InvalidateSettle
  \/ CancelSettle

----------------------------------------------------------------------------
(* The hooks modules: useUser / useAuthStatus / useLogin / useLogout *)

HookApi == "api/auth.ts"
HookFeatures == "features/accounts/hooks/UseAuth.ts"
HookShared == "shared/hooks/UseAuth.ts"
HookPart005 == "part_005"
Hooks == {HookApi, HookFeatures, HookShared, HookPart005}

(* the query keys ['auth','me'] and ['auth','user'] *)
QueryKeys == {"me", "user"}
EmptyCache == [k \in QueryKeys |-> "removed"]

(* the key under which useUser of the module keeps the user *)
UserKey(h) == IF h = HookShared THEN "user" ELSE "me"

HooksIdle ==
  /\ hook = HookApi
  /\ cache = EmptyCache
  /\ persisted = FALSE
  /\ clientToken = NoToken
  /\ mu = "idle"
  /\ toast = ""


(* persistUser(user): shared/hooks/UseAuth.ts has none *)
PersistUser(h, st, user) ==
  IF h = HookShared THEN st ELSE user = "user"

(* getPersistedUser() *)
GetPersistedUser(st) == IF st THEN "user" ELSE "null"

(* the data useUser of the module h returns: a query that is not in the     *)
(* cache is built from initialData (getPersistedUser) where the module      *)
(* gives one                                                                *)
QueryData(h, c, st) ==
  IF c[UserKey(h)] # "removed" THEN c[UserKey(h)]
  ELSE IF h = HookShared THEN "undefined" ELSE GetPersistedUser(st)

(* useAuthStatus().isAuthenticated *)
IsAuthenticated(h, c, st) == QueryData(h, c, st) = "user"

(* useLogin of the module h: authApi.login resolved, onSuccess has run *)
LoginSucceeded(h) ==
  /\ ACCESS_TOKEN' = Token(1)
  /\ clientToken' = IF h = HookShared THEN Token(1) ELSE clientToken
  /\ cache' = [cache EXCEPT ![UserKey(h)] = "user"]
  /\ persisted' = PersistUser(h, persisted, "user")
  /\ toast' = IF h = HookShared THEN "Login successful!"
              ELSE IF h = HookPart005 THEN "Welcome back!" ELSE "Welcome to Valunds!"
  /\ UNCHANGED <<file, hook, mu>>
  /\ UNCHANGED <<refreshVars, limVars, apiVars, bankVars, guardVars, cookieVars, geoVars>>

(* the queryFn of useUser of the module h settles: me/ answered with the    *)
(* user, or with a 401 (authApi.getCurrentUser then returns null)           *)
MeFetched(h, user) ==
  /\ mu # "pending"
  /\ ACCESS_TOKEN' = IF user = "null" THEN NoToken ELSE ACCESS_TOKEN
  /\ cache' = [cache EXCEPT ![UserKey(h)] = user]
  /\ persisted' = PersistUser(h, persisted, user)
  /\ UNCHANGED <<file, hook, clientToken, mu, toast>>
  /\ UNCHANGED <<refreshVars, limVars, apiVars, bankVars, guardVars, cookieVars, geoVars>>

(* logoutMutation.mutate(): mutationFn calls authApi.logout *)
LogoutMutate ==
  /\ mu # "pending"
  /\ mu' = "pending"
  /\ UNCHANGED <<file, ACCESS_TOKEN, hook, cache, persisted, clientToken, toast>>
  /\ UNCHANGED <<refreshVars, limVars, apiVars, bankVars, guardVars, cookieVars, geoVars>>

(* queryClient after the callbacks of useLogout *)
CacheAfterLogout(h, c) ==
  IF h = HookShared
    THEN [k \in QueryKeys |-> IF k = UserKey(h) THEN "null" ELSE "removed"]
    ELSE EmptyCache

(* localStorage after the callbacks of useLogout *)
StoredAfterLogout(h, st) ==
  IF h = HookShared THEN st ELSE PersistUser(h, st, "null")

(* setAccessToken(null) in the callbacks: of api/auth.ts in two modules,    *)
(* of api/client.ts in shared/hooks/UseAuth.ts, none in part_005            *)
TokenAfterLogout(h, tok) == IF h \in {HookApi, HookFeatures} THEN NoToken ELSE tok
ClientTokenAfterLogout(h, tok) == IF h = HookShared THEN NoToken ELSE tok

ToastAfterLogout(h, result) ==
  IF h \in {HookApi, HookFeatures} THEN "Signed out successfully"
  ELSE IF h = HookShared
    THEN (IF result = "resolved" THEN "Logged out successfully" ELSE "Logout failed")
  ELSE (IF result = "resolved" THEN "Signed out successfully" ELSE "Logout warning")

(* authApi.logout settles (ok: logout/ succeeded); onSuccess or onError and *)
(* then onSettled of the mutation run                                       *)
LogoutSettled(ok) ==
  LET result == LogoutResult(file, IF ok THEN "resolved" ELSE "rejected")
  IN /\ mu = "pending"
     /\ mu' = IF result = "resolved" THEN "success" ELSE "error"
     /\ ACCESS_TOKEN' = TokenAfterLogout(hook, LogoutToken(ACCESS_TOKEN))
     /\ clientToken' = ClientTokenAfterLogout(hook, clientToken)
     /\ cache' = CacheAfterLogout(hook, cache)
     /\ persisted' = StoredAfterLogout(hook, persisted)
     /\ toast' = ToastAfterLogout(hook, result)
     /\ UNCHANGED <<file, hook>>
     /\ UNCHANGED <<refreshVars, limVars, apiVars, bankVars, guardVars, cookieVars, geoVars>>

HookNext ==
  \/ \E h \in Hooks : LoginSucceeded(h)
  \/ \E h \in Hooks, user \in {"user", "null"} : MeFetched(h, user)
  \/ LogoutMutate
  \/ \E ok \in BOOLEAN : LogoutSettled(ok)


----------------------------------------------------------------------------
----------------------------------------------------------------------------
(* The route guards: ProtectedRoute (three versions) and AuthGuard *)

GuardApp == "client.ts:ProtectedRoute"
GuardThrow == "ProtectedRoute.tsx:7"
GuardEffect == "ProtectedRoute.tsx:42"
AuthGuard == "client.ts:AuthGuard"
ProtectedRoutes == {GuardApp, GuardThrow, GuardEffect}
Guards == ProtectedRoutes \cup {AuthGuard}

(* the route a guard is mounted on *)
RouteOf(g) == IF g = AuthGuard THEN "/login" ELSE "/dashboard"

NoRedirect == [to |-> "", by |-> ""]

GuardIdle ==
  /\ guard = GuardApp
  /\ isLoading = TRUE
  /\ isAuthenticated = FALSE
  /\ location = "/"
  /\ view = "none"
  /\ stale = FALSE
  /\ redirected = NoRedirect


(* the results useAuthStatus gives: loading without data, or settled *)
AuthStatuses == {<<TRUE, FALSE>>, <<FALSE, FALSE>>, <<FALSE, TRUE>>}

(* what the guard g returns from render for the auth status *)
RenderNoLoadingCheck(g, loading, authed) ==
  IF g = AuthGuard
    THEN (IF authed THEN "none" ELSE "children")
    ELSE (IF ~authed THEN "none" ELSE "children")

Render(g, loading, authed) ==
  IF loading THEN "spinner"
  ELSE IF g = AuthGuard
    THEN (IF authed THEN "none" ELSE "children")
    ELSE (IF ~authed THEN "none" ELSE "children")

(* the redirect the guard g issues for the auth status: <Navigate> in       *)
(* client.ts, a thrown redirect() in ProtectedRoute.tsx:7, router.navigate  *)
(* in the effect of ProtectedRoute.tsx:42                                   *)
RedirectOf(g, loading, authed) ==
  IF g = AuthGuard
    THEN (IF ~loading /\ authed THEN [to |-> "/dashboard", by |-> "Navigate"] ELSE NoRedirect)
  ELSE IF g = GuardApp
    THEN (IF ~loading /\ ~authed THEN [to |-> "/login", by |-> "Navigate"] ELSE NoRedirect)
  ELSE IF g = GuardThrow
    THEN (IF ~loading /\ ~authed THEN [to |-> "/login", by |-> "throw"] ELSE NoRedirect)
  ELSE (IF ~loading /\ ~authed THEN [to |-> "/login", by |-> "router.navigate"] ELSE NoRedirect)

(* the router shows the guard's route: the guard is mounted *)
Mount ==
  /\ location # RouteOf(guard)
  /\ location' = RouteOf(guard)
  /\ view' = "none"
  /\ stale' = TRUE
  /\ UNCHANGED <<guard, isLoading, isAuthenticated, redirected>>
  /\ UNCHANGED <<file, ACCESS_TOKEN, refreshVars, limVars, apiVars, bankVars, hookVars, cookieVars, geoVars>>

(* the user navigates to another page: the guard is unmounted *)
Leave(path) ==
  /\ location # path
  /\ location' = path
  /\ UNCHANGED <<guard, isLoading, isAuthenticated, view, stale, redirected>>
  /\ UNCHANGED <<file, ACCESS_TOKEN, refreshVars, limVars, apiVars, bankVars, hookVars, cookieVars, geoVars>>

(* the user query changes state: useAuthStatus gives a new result *)
AuthStatusChanges(loading, authed) ==
  /\ <<loading, authed>> # <<isLoading, isAuthenticated>>
  /\ isLoading' = loading
  /\ isAuthenticated' = authed
  /\ stale' = (stale \/ location = RouteOf(guard))
  /\ UNCHANGED <<guard, location, view, redirected>>
  /\ UNCHANGED <<file, ACCESS_TOKEN, refreshVars, limVars, apiVars, bankVars, hookVars, cookieVars, geoVars>>

(* React renders the mounted guard and runs its effects; a redirect         *)
(* replaces the location and unmounts the guard                             *)
RenderGuard ==
  LET r == RedirectOf(guard, isLoading, isAuthenticated)
  IN /\ location = RouteOf(guard)
     /\ stale
     /\ stale' = FALSE
     /\ IF r = NoRedirect
          THEN /\ view' = Render(guard, isLoading, isAuthenticated)
               /\ UNCHANGED <<location, redirected>>
          ELSE /\ view' = Render(guard, isLoading, isAuthenticated)
               /\ location' = r.to
               /\ redirected' = r
     /\ UNCHANGED <<guard, isLoading, isAuthenticated>>
     /\ UNCHANGED <<file, ACCESS_TOKEN, refreshVars, limVars, apiVars, bankVars, hookVars, cookieVars, geoVars>>

GuardNext ==
  \/ Mount
  \/ \E path \in {"/", "/about"} : Leave(path)
  \/ \E s \in AuthStatuses : AuthStatusChanges(s[1], s[2])
  \/ RenderGuard


----------------------------------------------------------------------------
(* CookieConsent *)

Categories == {"necessary", "analytics", "marketing", "functional"}

(* useState<CookiePreferences>({ necessary: true, analytics: false, ... }) *)
DefaultPreferences == [c \in Categories |-> c = "necessary"]
AllAccepted == [c \in Categories |-> TRUE]
NecessaryOnly == [c \in Categories |-> c = "necessary"]
Rejected == [c \in Categories |-> c = "necessary"]

(* localStorage.getItem('valunds-cookie-consent') === null *)
NoConsent == {}
NoEvent == [name |-> "", category |-> "", value |-> FALSE]

(* the component after its first render and mount effect *)
Mounted(stored) ==
  /\ isVisible = FALSE
  /\ showDetails = FALSE
  /\ preferences = DefaultPreferences
  /\ consent = stored
  /\ timer = (stored = NoConsent)
  /\ event = NoEvent

CookieIdle == Mounted(NoConsent)


(* the page is loaded again: the component is mounted anew *)
Reload ==
  /\ isVisible' = FALSE
  /\ showDetails' = FALSE
  /\ preferences' = DefaultPreferences
  /\ consent' = consent
  /\ timer' = (consent = NoConsent)
  /\ event' = [NoEvent EXCEPT !.name = "mount"]
  /\ UNCHANGED <<file, ACCESS_TOKEN, refreshVars, limVars, apiVars, bankVars, hookVars, guardVars, geoVars>>

(* the timer of the mount effect fires: setIsVisible(true) *)
ShowBanner ==
  /\ timer
  /\ timer' = FALSE
  /\ isVisible' = TRUE
  /\ event' = [NoEvent EXCEPT !.name = "timer"]
  /\ UNCHANGED <<showDetails, preferences, consent>>
  /\ UNCHANGED <<file, ACCESS_TOKEN, refreshVars, limVars, apiVars, bankVars, hookVars, guardVars, geoVars>>

(* setShowDetails(!showDetails) / setShowDetails(false) *)
ToggleDetails ==
  /\ isVisible
  /\ showDetails' = ~showDetails
  /\ event' = [NoEvent EXCEPT !.name = "setShowDetails"]
  /\ UNCHANGED <<isVisible, preferences, consent, timer>>
  /\ UNCHANGED <<file, ACCESS_TOKEN, refreshVars, limVars, apiVars, bankVars, hookVars, guardVars, geoVars>>

(* the preferences handlePreferenceChange(category, value) leaves *)
PreferenceChangeAny(prefs, category, value) == [prefs EXCEPT ![category] = value]

PreferenceChange(prefs, category, value) ==
  IF category = "necessary" THEN prefs ELSE [prefs EXCEPT ![category] = value]

HandlePreferenceChange(category, value) ==
  /\ isVisible /\ showDetails
  /\ preferences' = PreferenceChange(preferences, category, value)
  /\ event' = [name |-> "handlePreferenceChange", category |-> category, value |-> value]
  /\ UNCHANGED <<isVisible, showDetails, consent, timer>>
  /\ UNCHANGED <<file, ACCESS_TOKEN, refreshVars, limVars, apiVars, bankVars, hookVars, guardVars, geoVars>>

(* localStorage.setItem('valunds-cookie-consent', JSON.stringify(value)); setIsVisible(false) *)
Choose(name, value) ==
  /\ isVisible
  /\ consent' = {value}
  /\ isVisible' = FALSE
  /\ event' = [NoEvent EXCEPT !.name = name]
  /\ UNCHANGED <<showDetails, preferences, timer>>
  /\ UNCHANGED <<file, ACCESS_TOKEN, refreshVars, limVars, apiVars, bankVars, hookVars, guardVars, geoVars>>

HandleAcceptAll == Choose("handleAcceptAll", AllAccepted)
HandleAcceptNecessary == Choose("handleAcceptNecessary", NecessaryOnly)
HandleReject == Choose("handleReject", Rejected)
HandleCustomize == showDetails /\ Choose("handleCustomize", preferences)

CookieNext ==
  \/ Reload
  \/ ShowBanner
  \/ ToggleDetails
  \/ \E category \in Categories, value \in BOOLEAN : HandlePreferenceChange(category, value)
  \/ HandleAcceptAll
  \/ HandleAcceptNecessary
  \/ HandleReject
  \/ HandleCustomize

----------------------------------------------------------------------------
(* authApi.checkGeographicAccess / authApi.bankidStart of part_002 *)

Call == 1..NumCalls

RegionDefault == "BankID not available in your region"
GeoFailed == "Geographic check failed"

(* how the server answers GET /auth/geo-check/: the request fails, or it    *)
(* succeeds with { canUseBankID, message? }                                 *)
GeoAnswers ==
  [fails : {FALSE}, canUseBankID : BOOLEAN, message : {"", "Sweden only"}]
    \cup {[fails |-> TRUE, canUseBankID |-> FALSE, message |-> ""]}

NoGeo == [settled |-> "pending", canUseBankID |-> FALSE, message |-> ""]
NoBankidCall ==
  [pc |-> "idle", answer |-> [fails |-> FALSE, canUseBankID |-> FALSE, message |-> ""],
   geo |-> NoGeo, startSent |-> 0, result |-> "pending", error |-> ""]

GeoIdle == calls = [c \in Call |-> NoBankidCall]

UiIdle == HooksIdle /\ GuardIdle /\ CookieIdle /\ GeoIdle

(* what checkGeographicAccess settles with for the answer *)
CheckGeographicAccessFailOpen(answer) ==
  IF answer.fails
    THEN [settled |-> "resolved", canUseBankID |-> TRUE, message |-> GeoFailed]
    ELSE [settled |-> "resolved", canUseBankID |-> answer.canUseBankID, message |-> answer.message]

CheckGeographicAccess(answer) ==
  IF answer.fails
    THEN [settled |-> "resolved", canUseBankID |-> FALSE, message |-> GeoFailed]
    ELSE [settled |-> "resolved", canUseBankID |-> answer.canUseBankID, message |-> answer.message]

(* geo.message || 'BankID not available in your region' *)
RegionError(geo) == IF geo.message # "" THEN geo.message ELSE RegionDefault

(* authApi.bankidStart() is called: the geo-check request is sent *)
CallBankidStart(c) ==
  /\ calls[c].pc = "idle"
  /\ calls' = [calls EXCEPT ![c].pc = "geo"]
  /\ UNCHANGED <<file, ACCESS_TOKEN, refreshVars, limVars, apiVars, bankVars, hookVars, guardVars,
                 cookieVars>>

(* the geo-check request settles; bankidStart throws or sends the start request *)
GeoSettle(c, answer) ==
  LET geo == CheckGeographicAccess(answer)
  IN /\ calls[c].pc = "geo"
     /\ calls' = [calls EXCEPT ![c] =
          IF geo.settled = "rejected"
            THEN [@ EXCEPT !.pc = "done", !.answer = answer, !.geo = geo,
                           !.result = "rejected", !.error = "geo-check error"]
          ELSE IF ~geo.canUseBankID
            THEN [@ EXCEPT !.pc = "done", !.answer = answer, !.geo = geo,
                           !.result = "rejected", !.error = RegionError(geo)]
          ELSE [@ EXCEPT !.pc = "start", !.answer = answer, !.geo = geo,
                         !.startSent = @ + 1]]
     /\ UNCHANGED <<file, ACCESS_TOKEN, refreshVars, limVars, apiVars, bankVars, hookVars, guardVars,
                    cookieVars>>

(* POST /auth/bankid/start/ settles *)
StartRequestSettle(c, ok) ==
  /\ calls[c].pc = "start"
  /\ calls' = [calls EXCEPT ![c] =
       IF ok THEN [@ EXCEPT !.pc = "done", !.result = "resolved"]
       ELSE [@ EXCEPT !.pc = "done", !.result = "rejected", !.error = "start request error"]]
  /\ UNCHANGED <<file, ACCESS_TOKEN, refreshVars, limVars, apiVars, bankVars, hookVars, guardVars,
                 cookieVars>>

GeoNext ==
  \/ \E c \in Call : CallBankidStart(c)
  \/ \E c \in Call, answer \in GeoAnswers : GeoSettle(c, answer)
  \/ \E c \in Call, ok \in BOOLEAN : StartRequestSettle(c, ok)

----------------------------------------------------------------------------
(* Specifications *)

RefreshInit ==
  /\ UiIdle
  /\ file \in {"auth.ts", "part_003"}
  /\ ACCESS_TOKEN \in {NoToken, Token(0)}
  /\ RefreshIdle
  /\ LimIdle
  /\ ApiIdle
  /\ BankIdle


RefreshSpec == RefreshInit /\ [][RefreshNext]_vars

(* every request that was sent is answered *)
FairRefreshSpec == RefreshSpec /\ WF_vars(RefreshNext)

LimInit ==
  /\ UiIdle
  /\ file \in {"auth.ts", "part_003"}
  /\ ACCESS_TOKEN = NoToken
  /\ RefreshIdle
  /\ LimIdle
  /\ ApiIdle
  /\ BankIdle


LimSpec == LimInit /\ [][LimNext]_vars

ApiInit ==
  /\ UiIdle
  /\ file \in {"auth.ts", "part_003", "part_002"}
  /\ ACCESS_TOKEN \in {NoToken, Token(0)}
  /\ RefreshIdle
  /\ LimIdle
  /\ BankIdle
  /\ op \in {"register", "logout"}
  /\ file = "part_002" => op = "logout"
  /\ pc = "idle"
  /\ attempt = 0
  /\ fnCalls = 0
  /\ seedState = "none"
  /\ firstError = NoError
  /\ lastError = NoError
  /\ wrap = NotSettled
  /\ callResult = "pending"


ApiSpec == ApiInit /\ [][ApiNext]_vars

BankInit ==
  /\ UiIdle
  /\ file \in PlainLoops \cup TryLoops
  /\ ACCESS_TOKEN = NoToken
  /\ RefreshIdle
  /\ LimIdle
  /\ ApiIdle
  /\ BankIdle


BankSpec == BankInit /\ [][BankNext]_vars

(* every request and every timer settles *)
FairBankSpec == BankSpec /\ WF_vars(BankNext)

HookInit ==
  /\ file \in {"auth.ts", "part_003", "part_002"}
  /\ ACCESS_TOKEN = NoToken
  /\ RefreshIdle
  /\ LimIdle
  /\ ApiIdle
  /\ BankIdle
  /\ hook \in Hooks
  /\ cache = EmptyCache
  /\ persisted = FALSE
  /\ clientToken = NoToken
  /\ mu = "idle"
  /\ toast = ""
  /\ GuardIdle
  /\ CookieIdle
  /\ GeoIdle

HookSpec == HookInit /\ [][HookNext]_vars

GuardInit ==
  /\ file = "auth.ts"
  /\ ACCESS_TOKEN = NoToken
  /\ RefreshIdle
  /\ LimIdle
  /\ ApiIdle
  /\ BankIdle
  /\ HooksIdle
  /\ guard \in Guards
  /\ \E s \in AuthStatuses : isLoading = s[1] /\ isAuthenticated = s[2]
  /\ location = "/"
  /\ view = "none"
  /\ stale = FALSE
  /\ redirected = NoRedirect
  /\ CookieIdle
  /\ GeoIdle

GuardSpec == GuardInit /\ [][GuardNext]_vars

CookieInit ==
  /\ file = "auth.ts"
  /\ ACCESS_TOKEN = NoToken
  /\ RefreshIdle
  /\ LimIdle
  /\ ApiIdle
  /\ BankIdle
  /\ HooksIdle
  /\ GuardIdle
  /\ CookieIdle
  /\ GeoIdle

CookieSpec == CookieInit /\ [][CookieNext]_vars

GeoInit ==
  /\ file = "part_002"
  /\ ACCESS_TOKEN = NoToken
  /\ RefreshIdle
  /\ LimIdle
  /\ ApiIdle
  /\ BankIdle
  /\ HooksIdle
  /\ GuardIdle
  /\ CookieIdle
  /\ GeoIdle

GeoSpec == GeoInit /\ [][GeoNext]_vars

----------------------------------------------------------------------------
(* Claims about the refresh interceptor *)

InFlight(i) == refresh[i].stage \in {"csrf", "csrfWait", "post", "stuck"}

AtMostOneRefresh == Cardinality({i \in RefreshId : InFlight(i)}) <= 1

(* r receives a 401 that the interceptor handles, in this step *)
Got401(r) == req[r].st = "inflight" /\ ~req[r].retry /\ req'[r].retry

JoinsTheOneInFlight ==
  \A r \in Req :
    (Got401(r) /\ \E i \in RefreshId : InFlight(i)) =>
       /\ \A i \in RefreshId : refresh'[i].stage = refresh[i].stage
       /\ req'[r].st \in {"awaiting", "queued"}
       /\ InFlight(req'[r].waitsOn)
       /\ req'[r].sends = req[r].sends

(* C1: token refresh is single-flight. In both interceptors at most one     *)
(* refresh procedure (csrf/ priming included, POST refresh/ in particular)  *)
(* is in flight in every reachable state, and a request whose 401 arrives   *)
(* while a refresh is in flight starts no refresh: it is not re-sent and    *)
(* waits (awaiting refreshPromise, or queued in waiters) for that refresh.  *)
C1_SingleFlight == [][AtMostOneRefresh /\ AtMostOneRefresh' /\ JoinsTheOneInFlight]_vars

C1_Witness ==
  \E i \in RefreshId, r1, r2 \in Req :
    /\ refresh[i].stage = "post"
    /\ r1 # r2 /\ r1 # refresh[i].leader /\ r2 # refresh[i].leader
    /\ req[r1].st \in {"awaiting", "queued"} /\ req[r1].waitsOn = i
    /\ req[r2].st \in {"awaiting", "queued"} /\ req[r2].waitsOn = i

ResentAfterSuccess ==
  \A r \in Req :
    /\ req[r].sends <= 2
    /\ req[r].sends = 2 => req[r].st \in {"inflight", "done"}
    /\ \A i \in RefreshId :
         (refresh[i].stage = "ok" /\ req[r].waitsOn = i) =>
            /\ req[r].sends = 2
            /\ req[r].auth = <<"Bearer", refresh[i].token>>
            /\ req[r].storedAtResend = refresh[i].token
            /\ req[r].st = "done" =>
                 req[r].result = (IF req[r].lastStatus = 200 THEN "ok"
                                  ELSE IF req[r].lastStatus = 401 THEN "err401"
                                  ELSE "errOther")

ResentIsFinal ==
  \A r \in Req :
    (req[r].sends = 2 /\ req[r].st = "inflight" /\ req'[r] # req[r]) =>
       /\ req'[r].st = "done"
       /\ req'[r].sends = 2
       /\ \A i \in RefreshId : refresh'[i].stage = refresh[i].stage

(* C2: once a refresh has succeeded with token t, every request that was    *)
(* waiting for it (the one that started it and those whose 401 arrived      *)
(* while it was in flight) has been sent exactly twice, the second time     *)
(* with ACCESS_TOKEN = t already persisted and Authorization = Bearer t, and   *)
(* its caller gets the outcome of the second send; the response to a        *)
(* re-sent request, a 401 included, settles it with no refresh started and  *)
(* no further send.                                                         *)
C2_ResendAfterRefresh == [][ResentAfterSuccess /\ ResentAfterSuccess' /\ ResentIsFinal]_vars

C2_Witness ==
  \E i \in RefreshId, r \in Req :
    /\ refresh[i].stage = "ok" /\ req[r].waitsOn = i /\ r # refresh[i].leader
    /\ req[r].sends = 2 /\ req[r].st = "done" /\ req[r].lastStatus = 401
    /\ req[r].result = "err401"

RefreshFailureSettled ==
  file = "auth.ts" =>
    \A i \in RefreshId :
      /\ refresh[i].stage # "stuck"
      /\ refresh[i].stage = "failed" =>
           \A r \in Req : req[r].waitsOn = i =>
              req[r].st = "done" /\ req[r].result = "err401" /\ req[r].sends = 1

RefreshFailureResets ==
  file = "auth.ts" =>
    \A i \in RefreshId :
      (refresh[i].stage = "post" /\ refresh'[i].stage # "post" /\ refresh'[i].status # 200) =>
         /\ refresh'[i].stage = "failed"
         /\ ACCESS_TOKEN' = NoToken
         /\ ~isRefreshing'
         /\ refreshPromise' = 0
         /\ \A j \in RefreshId : j # i => refresh'[j] = refresh[j]

(* C3: in api/auth.ts, when refresh/ fails (with a 401 or any other error)  *)
(* no other refresh is started by that response, ACCESS_TOKEN becomes null, *)
(* isRefreshing is false and refreshPromise null again, and every request   *)
(* that waited on that refresh is settled with its own 401 after a single   *)
(* send.                                                                    *)
C3_RefreshFailure == [][RefreshFailureSettled /\ RefreshFailureSettled' /\ RefreshFailureResets]_vars

(* a later 401 did start a new refresh after the failed one *)
C3_Witness ==
  /\ file = "auth.ts"
  /\ \E i, j \in RefreshId, r1, r2 \in Req :
       /\ refresh[i].stage = "failed" /\ refresh[i].status = 401
       /\ r1 # r2 /\ req[r1].waitsOn = i /\ req[r2].waitsOn = i
       /\ req[r1].result = "err401" /\ req[r2].result = "err401"
       /\ refresh[j].stage = "post"

----------------------------------------------------------------------------
(* Claims about the login rate limiter *)

(* this step is a call of authApi.login for the email e (lastCall is the    *)
(* call made by the latest step, NoCall when that step was not a call)      *)
LoginStep(e) == lastCall'.email = e

AtMostFivePass ==
  /\ \A e \in Emails : ~win[e].success => win[e].passes <= 5
  /\ ~lastCall.allowed => lastCall.msg = "Too many login attempts. Try again in 15 minutes."

LimiterPerEmail ==
  \A e \in Emails : LoginStep(e) =>
    /\ \A o \in Emails : o # e =>
         /\ attempts'[Key(o)] = attempts[Key(o)]
         /\ win'[o] = win[o]
         /\ pending'[o] = pending[o]
    /\ (InForce(win[e], now) /\ ~win[e].success /\ win[e].passes >= 5) => ~lastCall'.allowed
    /\ lastCall'.allowed => pending'[e] = pending[e] + 1
    /\ ~lastCall'.allowed => pending' = pending

(* C4: per email, in a limiter window (from the first call that passes      *)
(* until 15 minutes later) in which no login succeeded at most 5 calls of   *)
(* authApi.login pass the limiter; every further call in it is rejected     *)
(* with 'Too many login attempts. Try again in 15 minutes.' and starts no   *)
(* request; a call for one email changes neither the record nor the count   *)
(* of another email.                                                        *)
C4_RateLimit == [][AtMostFivePass /\ AtMostFivePass' /\ LimiterPerEmail]_vars

(* a sixth call in a window without success was rejected while the other    *)
(* email still passes                                                       *)
C4_Witness ==
  \E e, o \in Emails :
    /\ e # o
    /\ win[e].passes = 5 /\ ~win[e].success /\ InForce(win[e], now)
    /\ lastCall.email = e /\ ~lastCall.allowed
    /\ win[o].passes >= 1 /\ InForce(win[o], now)

FixedWindow ==
  \A e \in Emails :
    attempts[Key(e)] # NoRecord =>
      /\ attempts[Key(e)].resetTime = win[e].start + WindowMs
      /\ attempts[Key(e)].count = win[e].passes

RejectedChangesNothing ==
  \A e \in Emails : (LoginStep(e) /\ ~lastCall'.allowed) => attempts' = attempts

LaterThanResetStartsAnew ==
  \A e \in Emails :
    (LoginStep(e) /\ attempts[Key(e)] # NoRecord /\ now > attempts[Key(e)].resetTime) =>
       /\ lastCall'.allowed
       /\ attempts'[Key(e)] = [count |-> 1, resetTime |-> now + WindowMs]

AllowedAgainWhileRecordStands ==
  \A e \in Emails :
    (LoginStep(e) /\ lastRej.email = e /\ lastRej.same /\ lastRej.age > WindowMs) =>
       lastCall'.allowed

AllowedAgainAlways ==
  \A e \in Emails :
    (LoginStep(e) /\ lastRej.email = e /\ lastRej.age > WindowMs) => lastCall'.allowed

(* C5 as stated: the window is fixed (it ends windowMs after the first      *)
(* counted call), rejected calls change neither count nor resetTime, a call *)
(* later than resetTime starts a new window with count 1, and a login       *)
(* rejected at time t is allowed at every time later than t + 15 minutes.   *)
C5_Original ==
  [][FixedWindow /\ FixedWindow' /\ RejectedChangesNothing /\ LaterThanResetStartsAnew
     /\ AllowedAgainAlways]_vars

(* C5 (amended): the window is fixed, rejected calls change neither count   *)
(* nor resetTime, a call later than resetTime starts a new window with      *)
(* count 1, and a login rejected at time t is allowed at a time later than  *)
(* t + 15 minutes as long as the record that rejected it is still the one   *)
(* persisted for the email (no call has started a new window since).           *)
C5_FixedWindow ==
  [][FixedWindow /\ FixedWindow' /\ RejectedChangesNothing /\ LaterThanResetStartsAnew
     /\ AllowedAgainWhileRecordStands]_vars

(* a call made later than t + 15 minutes after a rejection at t has passed  *)
(* and started a new window                                                 *)
C5_Witness ==
  \E e \in Emails :
    /\ lastRej.email = e /\ ~lastRej.same /\ lastRej.age > WindowMs
    /\ lastCall.email = e /\ lastCall.allowed
    /\ attempts[Key(e)] = [count |-> 1, resetTime |-> now + WindowMs]

----------------------------------------------------------------------------
(* Claims about withCsrfRetry and authApi.logout *)

CsrfForbidden(e) ==
  e.kind = "axios" /\ e.status = 403 /\ Includes(ToLowerCase(e.detail), <<"c", "s", "r", "f">>)

(* C6: withCsrfRetry of api/auth.ts invokes fn at most twice; a second      *)
(* invocation exists only if the first failed with a 403 whose detail       *)
(* contains 'csrf' (in any case) and only once the csrf/ request of         *)
(* seedCsrf has settled; after any other first failure fn has been invoked  *)
(* once; whenever withCsrfRetry rejects, it does so through handleError     *)
(* applied to the last failure.                                             *)
C6_CsrfRetry ==
  file = "auth.ts" =>
    /\ fnCalls <= 2
    /\ fnCalls = 2 => (CsrfForbidden(firstError) /\ seedState = "settled")
    /\ pc = "seed" => (fnCalls = 1 /\ seedState = "inflight" /\ CsrfForbidden(firstError))
    /\ (pc = "done" /\ firstError # NoError /\ ~CsrfForbidden(firstError)) =>
         (fnCalls = 1 /\ wrap.result = "rejected" /\ seedState = "none")
    /\ wrap.result = "rejected" =>
         /\ wrap.handled
         /\ lastError # NoError
         /\ wrap.handledError = lastError
         /\ wrap.reported = HandleErrorMessage(file, lastError)

(* the retry failed differently and that second failure was reported *)
C6_Witness ==
  /\ file = "auth.ts" /\ pc = "done" /\ fnCalls = 2
  /\ wrap.result = "rejected" /\ wrap.handled
  /\ lastError # firstError /\ wrap.handledError = lastError

(* C10: once authApi.logout has settled the access token is null, whether   *)
(* logout/ succeeded, failed or was retried after a CSRF 403; in            *)
(* api/auth.ts and part_003 the call resolves in all these cases (part_002  *)
(* may reject).                                                             *)
C10_LogoutClears ==
  (op = "logout" /\ pc = "done") =>
     /\ ACCESS_TOKEN = NoToken
     /\ file \in {"auth.ts", "part_003"} => callResult = "resolved"

(* a logout whose retry after a CSRF 403 failed again, not with a 401 *)
C10_Witness ==
  /\ op = "logout" /\ pc = "done" /\ file \in {"auth.ts", "part_003"}
  /\ fnCalls = 2 /\ wrap.result = "rejected" /\ lastError.status = 500
  /\ callResult = "resolved" /\ ACCESS_TOKEN = NoToken

----------------------------------------------------------------------------
(* Claims about the BankID polling loops *)

(* an answer that leaves the order pending *)
StillPending(a) ==
  a.kind = "data" /\ (a.status = "pending" \/ (a.status = "complete" /\ a.user = "undefined"))

BoundedPolling ==
  /\ polls <= 60
  /\ waits = polls
  /\ elapsed = 2000 * polls
  /\ polls >= 1 => (pollRef = orderRef /\ orderRef \in OrderRefs)
  /\ bpc = "wait" => polls < 60
  /\ (polls = 60 /\ StillPending(lastResp) /\ bpc # "status") =>
        /\ bpc \in {"cancel", "done"}
        /\ bpc = "done" => bResult \in {"BankID timeout", "BankID authentication timed out"}

(* C7: in every polling loop, after one bankidStart at most 60 bankidStatus *)
(* requests are sent, all for the returned order_ref, each after its own    *)
(* 2-second wait; when the 60th poll still reports a pending order the      *)
(* mutation rejects with a timeout error; and, every request and timer      *)
(* settling, the mutation terminates.                                       *)
C7_BoundedPolling == []BoundedPolling /\ <>(bpc = "done")

C7_Witness ==
  /\ bpc = "done" /\ polls = 60 /\ waits = 60 /\ StillPending(lastResp)
  /\ bResult = "BankID timeout"

(* C8: in the plain loops the poll that reports 'complete' with a user      *)
(* invalidates ['auth','me'] and resolves with that user, the poll that     *)
(* reports 'failed' rejects with 'BankID failed', no request follows        *)
(* either, and any other answer is followed by another poll until 60 polls  *)
(* have been made, after which the mutation rejects with 'BankID timeout'.  *)
C8_TerminalStates ==
  file \in PlainLoops =>
    /\ cancels = 0
    /\ (lastResp.status = "complete" /\ lastResp.user # "undefined") =>
          /\ bpc \in {"invalidate", "done"}
          /\ invalidated
          /\ bpc = "done" => bResult = lastResp.user
    /\ lastResp.status = "failed" => (bpc = "done" /\ bResult = "BankID failed")
    /\ (lastResp.kind = "data" /\ lastResp.status # "failed"
          /\ ~(lastResp.status = "complete" /\ lastResp.user # "undefined")) =>
          \/ bpc = "wait" /\ polls < 60
          \/ bpc = "status"
          \/ bpc = "done" /\ polls = 60 /\ bResult = "BankID timeout"

C8_Witness ==
  /\ file \in PlainLoops /\ polls >= 2 /\ polls < 60
  /\ lastResp.status = "failed" /\ bpc = "done" /\ bResult = "BankID failed"

(* C9: in the try/catch loops of part_005 the poll that reports 'failed'    *)
(* (or 'cancelled' in the second variant) rejects the mutation at that poll *)
(* with 'BankID authentication failed' ('BankID authentication was          *)
(* cancelled'); no bankidStatus and no bankidCancel request follows.        *)
C9_FailedRejects ==
  file \in TryLoops =>
    /\ lastResp.status = "failed" =>
         (bpc = "done" /\ bResult = "BankID authentication failed" /\ cancels = 0)
    /\ (file = "part_005b" /\ lastResp.status = "cancelled") =>
         (bpc = "done" /\ bResult = "BankID authentication was cancelled" /\ cancels = 0)

----------------------------------------------------------------------------
(* Claims about the hooks and components *)

LogoutSettles == mu = "pending" /\ mu' \in {"success", "error"}

LocalStateCleared ==
  /\ cache["me"] \in {"null", "removed"}
  /\ ~persisted
  /\ ACCESS_TOKEN = NoToken
  /\ ~IsAuthenticated(hook, cache, persisted)

(* C11: when the useLogout mutation settles, on success and on error alike, *)
(* the cached ['auth','me'] user is gone, the 'valunds-user-profile' entry  *)
(* is removed from localStorage, the access token is null and useAuthStatus *)
(* reports isAuthenticated = false.                                         *)
C11_UseLogoutClears == [][LogoutSettles => LocalStateCleared']_vars

(* the guard renders in this step *)
GuardRenders == location = RouteOf(guard) /\ stale /\ ~stale'

ProtectedRouteGuards ==
  (GuardRenders /\ guard \in ProtectedRoutes) =>
     /\ view' = "children" <=> (~isLoading /\ isAuthenticated)
     /\ isLoading => (view' = "spinner" /\ location' = location)
     /\ (~isLoading /\ ~isAuthenticated) => (location' = "/login" /\ view' = "none")

AuthGuardGuards ==
  (GuardRenders /\ guard = AuthGuard) =>
     /\ view' = "children" <=> (~isLoading /\ ~isAuthenticated)
     /\ isLoading => (view' = "spinner" /\ location' = location)
     /\ (~isLoading /\ isAuthenticated) => (location' = "/dashboard" /\ view' = "none")

(* what a mounted guard shows once it has rendered for the current status *)
ShownContentIsAllowed ==
  (location = RouteOf(guard) /\ ~stale /\ view = "children") =>
     /\ ~isLoading
     /\ guard \in ProtectedRoutes => isAuthenticated
     /\ guard = AuthGuard => ~isAuthenticated

NecessaryStored == \A value \in consent : value["necessary"]

NecessaryUnchangeable ==
  (event'.name = "handlePreferenceChange" /\ event'.category = "necessary") =>
     preferences' = preferences

(* C13: after any sequence of preference toggles and any of the four        *)
(* choices the value stored under 'valunds-cookie-consent' has necessary =  *)
(* true, and handlePreferenceChange('necessary', v) leaves the preferences  *)
(* unchanged for every v.                                                   *)
C13_NecessaryCookies == [][NecessaryStored /\ NecessaryStored' /\ NecessaryUnchangeable]_vars

(* Save Preferences has stored preferences that were toggled *)
C13_Witness ==
  /\ event.name = "handleCustomize"
  /\ \E value \in consent : value["analytics"] /\ ~value["marketing"] /\ value["necessary"]
  /\ ~isVisible

GeoSettled(c) == calls[c].geo.settled # "pending"

(* C14: authApi.bankidStart of part_002 sends POST /auth/bankid/start/ only *)
(* after a geo-check response with canUseBankID = true; if the geo-check    *)
(* says false or the geo-check request fails, bankidStart rejects with a    *)
(* region error and no start request is sent; checkGeographicAccess itself  *)
(* never rejects.                                                           *)
C14_GeoGate ==
  \A c \in Call :
    /\ calls[c].startSent <= 1
    /\ calls[c].startSent = 1 =>
          (GeoSettled(c) /\ ~calls[c].answer.fails /\ calls[c].answer.canUseBankID)
    /\ (GeoSettled(c) /\ (calls[c].answer.fails \/ ~calls[c].answer.canUseBankID)) =>
          /\ calls[c].pc = "done" /\ calls[c].result = "rejected"
          /\ calls[c].error \in {GeoFailed, RegionDefault, "Sweden only"}
          /\ calls[c].startSent = 0
    /\ calls[c].geo.settled # "rejected"

(* one call was stopped by a failed geo-check while another passed the gate *)
C14_Witness ==
  \E c, o \in Call :
    /\ calls[c].answer.fails /\ calls[c].result = "rejected" /\ calls[c].error = GeoFailed
    /\ calls[o].startSent = 1 /\ calls[o].result = "resolved"

----------------------------------------------------------------------------
(* Claims about the waiter queue of part_003 *)

Queued(r) == file = "part_003" /\ req[r].st = "queued"

(* C15: in the waiter-queue interceptor of part_003 every request that      *)
(* received a 401 while a refresh was in flight is eventually settled (it   *)
(* is re-sent when the refresh succeeds, rejected when it fails); no queued *)
(* request is left pending forever.                                         *)
C15_WaitersSettled == \A r \in Req : Queued(r) ~> (req[r].st = "done")

(* C16: in part_003 every refresh started by the interceptor eventually     *)
(* finishes and isRefreshing returns to false, for every combination of     *)
(* server responses to csrf/ and refresh/ (a 401 to csrf/ included).        *)
C16_RefreshFinishes ==
  /\ \A i \in RefreshId :
       (file = "part_003" /\ Active(i)) ~> (refresh[i].stage \in {"ok", "failed"})
  /\ (file = "part_003" /\ isRefreshing) ~> ~isRefreshing

====
